---- MODULE Spec2Model ----
(***************************************************************************)
(* Model of package mocksy's matcher (src/mocksy/matcher.go): the          *)
(* process-wide response history, the host filter, the fuzzy comparer and  *)
(* the sort that FindMatching drives.                                      *)
(*                                                                         *)
(* Strings that the code inspects byte by byte (paths, addresses, bodies)  *)
(* are sequences of byte values; strings that are only compared for        *)
(* equality (host names, methods, protocols, ports) are TLA+ strings.      *)
(***************************************************************************)
EXTENDS Integers, Sequences, FiniteSets, TLC

\* ------------------------------------------------------------------ bounds

\* Longest request body, in bytes.
MaxBodyLen == 2

\* Largest number of items AddToHistory is let to store.
MaxHist == 3

\* ------------------------------------------------------------ value domains

Bytes == {0, 1}

\* "/x" and "/y"
Paths == {<<47, 120>>, <<47, 121>>}

Methods == {"GET", "POST"}

Protocols == {"HTTP/1.0", "HTTP/1.1"}

Ports == {"", "8080"}

HostValues == {"foo", "bar"}

\* Addresses without a port: "1" and "2".
Ips == {<<49>>, <<50>>}

\* The byte strings of at most MaxBodyLen bytes that are 0 up to their last
\* byte: two bodies of each length, one body of every shorter length.
Bodies ==
    {b \in UNION {[1..n -> Bytes] : n \in 0..MaxBodyLen} :
        \A i \in 1..(Len(b) - 1) : b[i] = 0}

\* type Host struct { Value, Ip string }
Hosts == [Value : HostValues, Ip : Ips]

\* ---------------------------------------------------------- fuzzyComparer

\* longestPrefix: number of common leading bytes of a and b, and whether
\* a and b are the same string.  On a perfect match pfx is left at 0.
RECURSIVE commonPrefix(_, _, _)
commonPrefix(a, b, i) ==
    IF i <= Len(a) /\ i <= Len(b) /\ a[i] = b[i]
    THEN 1 + commonPrefix(a, b, i + 1)
    ELSE 0

longestPrefix(a, b) ==
    IF a = b
    THEN [pfx |-> 0, perfectMatch |-> TRUE]
    ELSE [pfx |-> commonPrefix(a, b, 1), perfectMatch |-> FALSE]

\* bytes.Equal
bytesEqual(a, b) == a = b

\* |d|, as the two "if diffLen < 0" statements compute it.
absDiffMutant(d) == d

absDiff(d) == IF d < 0 THEN -d ELSE d

\* aMatchesMost = diffLenA < diffLenB
closerMutant(diffLenA, diffLenB) == diffLenA <= diffLenB

closer(diffLenA, diffLenB) == diffLenA < diffLenB

\* The branch taken when exactly one of the two methods is args.Method:
\* aMethod is ra.Method == args.Method.
methodStepMutant(aMethod, aMatchesMost) ==
    IF aMethod # aMatchesMost
    THEN aMatchesMost
    ELSE aMethod

methodStep(aMethod, aMatchesMost) ==
    IF aMethod # aMatchesMost
    THEN aMethod
    ELSE aMethod

\* lessItems with the request check moved ahead of the path check.
lessItemsMutant(ra, rb, args) ==
    LET perfectMatchA == longestPrefix(ra.Path, args.Path).perfectMatch
        perfectMatchB == longestPrefix(rb.Path, args.Path).perfectMatch
        reqAExact == bytesEqual(ra.Request.Value, args.Request)
        reqBExact == bytesEqual(rb.Request.Value, args.Request)
        diffLenA == absDiff(Len(ra.Request.Value) - Len(args.Request))
        diffLenB == absDiff(Len(rb.Request.Value) - Len(args.Request))
        aMatchesMost == closer(diffLenA, diffLenB)
    IN  IF reqAExact # reqBExact THEN reqAExact
        ELSE IF perfectMatchA # perfectMatchB THEN perfectMatchA
        ELSE IF (ra.Method = args.Method) # (rb.Method = args.Method)
             THEN methodStep(ra.Method = args.Method, aMatchesMost)
        ELSE IF (ra.Protocol = args.Protocol) # (rb.Protocol = args.Protocol)
             THEN ra.Protocol = args.Protocol
        ELSE IF (ra.Port = args.Port) # (rb.Port = args.Port)
             THEN ra.Port = args.Port
        ELSE aMatchesMost

\* The closure fuzzyComparer returns, applied to two items ra = reqs[i] and
\* rb = reqs[j]: TRUE iff ra matches args better than rb.
lessItems(ra, rb, args) ==
    LET perfectMatchA == longestPrefix(ra.Path, args.Path).perfectMatch
        perfectMatchB == longestPrefix(rb.Path, args.Path).perfectMatch
        reqAExact == bytesEqual(ra.Request.Value, args.Request)
        reqBExact == bytesEqual(rb.Request.Value, args.Request)
        diffLenA == absDiff(Len(ra.Request.Value) - Len(args.Request))
        diffLenB == absDiff(Len(rb.Request.Value) - Len(args.Request))
        aMatchesMost == closer(diffLenA, diffLenB)
    IN  IF perfectMatchA # perfectMatchB THEN perfectMatchA
        ELSE IF reqAExact # reqBExact THEN reqAExact
        ELSE IF (ra.Method = args.Method) # (rb.Method = args.Method)
             THEN methodStep(ra.Method = args.Method, aMatchesMost)
        ELSE IF (ra.Protocol = args.Protocol) # (rb.Protocol = args.Protocol)
             THEN ra.Protocol = args.Protocol
        ELSE IF (ra.Port = args.Port) # (rb.Port = args.Port)
             THEN ra.Port = args.Port
        ELSE aMatchesMost

\* fuzzyComparer(reqs, args): the Less function over indices of reqs.
fuzzyComparer(reqs, args) ==
    [i \in DOMAIN reqs, j \in DOMAIN reqs |-> lessItems(reqs[i], reqs[j], args)]

\* ------------------------------------------------------------ program state

VARIABLES
    responseHistory,  \* var responseHistory responseDB
    appended,         \* the items AddToHistory was called with, in call order
    op,               \* the call that ran last: "init", "AddToHistory", "FindMatching"
    req,              \* FindMatching: the request it was given
    filtered,         \* FindMatching: what filterByHost returned, before fuzzySort
    viableReqs,       \* FindMatching: viableReqs when it returns
    ret,              \* FindMatching: the string it returned
    stderr,           \* FindMatching: number of lines it wrote to os.Stderr
    sorted,           \* FindMatching: whether sort.Slice ran
    cmpArgs,          \* comparer harness: the compareArgs
    cmpReqs,          \* comparer harness: the slice handed to fuzzyComparer
    cmpLess,          \* comparer harness: the closure's answers, by (i, j)
    pc,               \* goroutines: where each one stands
    snap,             \* goroutines: the slice value each one read
    item              \* goroutines: the item each appender adds

vars == <<responseHistory, appended, op, req, filtered, viableReqs, ret, stderr, sorted,
          cmpArgs, cmpReqs, cmpLess, pc, snap, item>>

seqVars == <<responseHistory, appended, op, req, filtered, viableReqs, ret, stderr, sorted>>
cmpVars == <<cmpArgs, cmpReqs, cmpLess>>
goVars == <<pc, snap, item>>

None == "none"

\* ------------------------------------------------------------------ inputs

\* Items given to AddToHistory.
HistItems ==
    [Host : Hosts, Port : {""}, Protocol : {"HTTP/1.1"}, Method : Methods,
     Path : {<<47, 120>>}, Request : [Value : {<<>>}]]

\* "1:9" and "2": a remote address with and without a port.
RemoteAddrs == {<<49, 58, 57>>, <<50>>}

\* Requests given to FindMatching.  XForwardedFor is the value of
\* req.Header.Get("X-Forwarded-For"), empty when the header is absent;
\* Body.err tells whether reading the body fails.
Requests ==
    [Host : {"foo"}, XForwardedFor : {<<>>, <<50>>}, RemoteAddr : RemoteAddrs,
     Method : Methods, Proto : {"HTTP/1.1"},
     URL : [Port : {""}, EscapedPath : {<<47, 120>>}],
     Body : [data : {<<>>}, err : BOOLEAN]]

\* ------------------------------------------------------------- the matcher

\* HistoryLength
HistoryLength == Len(responseHistory)

\* strings.Index(s, ":") for a one-byte separator: the 0-based position of
\* its first occurrence in s, or -1.
RECURSIVE stringsIndexFrom(_, _, _)
stringsIndexFrom(s, c, i) ==
    IF i > Len(s) THEN -1
    ELSE IF s[i] = c THEN i - 1
    ELSE stringsIndexFrom(s, c, i + 1)

stringsIndex(s, c) == stringsIndexFrom(s, c, 1)

findHost(r) ==
    IF Len(r.XForwardedFor) > 0
    THEN [Value |-> r.Host, Ip |-> r.XForwardedFor]
    ELSE LET id == stringsIndex(r.RemoteAddr, 58)
         IN  IF id > -1
             THEN [Value |-> r.Host, Ip |-> SubSeq(r.RemoteAddr, 1, id)]
             ELSE [Value |-> r.Host, Ip |-> r.RemoteAddr]

\* filterLoop asking for both the value and the ip to match.
RECURSIVE filterLoopMutant(_, _, _, _)
filterLoopMutant(lst, host, i, newlst) ==
    IF i > Len(lst) THEN newlst
    ELSE LET e == lst[i]
         IN  IF e.Host.Value = host.Value /\ e.Host.Ip = host.Ip
             THEN filterLoopMutant(lst, host, i + 1, Append(newlst, e))
             ELSE filterLoopMutant(lst, host, i + 1, newlst)

\* The range loop of filterByHost from element i on, newlst being what it
\* has appended so far.
RECURSIVE filterLoop(_, _, _, _)
filterLoop(lst, host, i, newlst) ==
    IF i > Len(lst) THEN newlst
    ELSE LET e == lst[i]
         IN  IF e.Host.Value = host.Value \/ e.Host.Ip = host.Ip
             THEN filterLoop(lst, host, i + 1, Append(newlst, e))
             ELSE filterLoop(lst, host, i + 1, newlst)

filterByHost(lst, host) == filterLoop(lst, host, 1, <<>>)

\* sort.Slice(reqs, less).  Package sort promises a permutation of reqs that
\* is in order by less and says the sort is not guaranteed to be stable:
\* every such permutation is a result.
sortSlice(reqs, args) ==
    {s \in {[i \in 1..Len(reqs) |-> reqs[p[i]]] : p \in Permutations(1..Len(reqs))} :
        \A i, j \in 1..Len(reqs) : i < j => ~lessItems(s[j], s[i], args)}

\* fuzzySort going on to sort after a failed read, with what was read.
fuzzySortMutant(reqs, host, r) ==
    IF Len(reqs) = 0
    THEN {[reqs |-> reqs, stderr |-> 0, sorted |-> FALSE]}
    ELSE LET args == [Request |-> r.Body.data, Host |-> host, Port |-> r.URL.Port,
                      Protocol |-> r.Proto, Method |-> r.Method,
                      Path |-> r.URL.EscapedPath]
         IN  {[reqs |-> s, stderr |-> IF r.Body.err THEN 1 ELSE 0, sorted |-> TRUE] :
                 s \in sortSlice(reqs, args)}

\* fuzzySort(reqs, host, req): what it can leave behind.  reqs is the slice
\* after the call, stderr the number of lines logged, sorted whether
\* sort.Slice ran.
fuzzySort(reqs, host, r) ==
    IF Len(reqs) = 0
    THEN {[reqs |-> reqs, stderr |-> 0, sorted |-> FALSE]}
    ELSE IF r.Body.err
    THEN {[reqs |-> reqs, stderr |-> 1, sorted |-> FALSE]}
    ELSE LET args == [Request |-> r.Body.data, Host |-> host, Port |-> r.URL.Port,
                      Protocol |-> r.Proto, Method |-> r.Method,
                      Path |-> r.URL.EscapedPath]
         IN  {[reqs |-> s, stderr |-> 0, sorted |-> TRUE] : s \in sortSlice(reqs, args)}

\* Whether newlst is built in the backing array of lst.
\* "newlst := make([]Item, 0)" gives it an array of its own; "lst[:0]"
\* would not.
newlstSharesMutant(lst) == Len(lst) > 0

newlstShares(lst) == FALSE

\* responseHistory after viableReqs was filtered out of it and sorted in
\* place into `after`: untouched, unless the two share a backing array.
storeAfterSort(lst, after) ==
    IF newlstShares(lst)
    THEN after \o SubSeq(lst, Len(after) + 1, Len(lst))
    ELSE lst

Init ==
    /\ responseHistory = <<>>
    /\ appended = <<>>
    /\ op = "init"
    /\ req = None
    /\ filtered = <<>>
    /\ viableReqs = <<>>
    /\ ret = None
    /\ stderr = 0
    /\ sorted = FALSE
    /\ cmpArgs = None
    /\ cmpReqs = <<>>
    /\ cmpLess = <<>>
    /\ pc = None
    /\ snap = None
    /\ item = None

AddToHistory(itm) ==
    /\ Len(responseHistory) < MaxHist
    /\ responseHistory' = Append(responseHistory, itm)
    /\ appended' = Append(appended, itm)
    /\ op' = "AddToHistory"
    /\ req' = None
    /\ filtered' = <<>>
    /\ viableReqs' = <<>>
    /\ ret' = None
    /\ stderr' = 0
    /\ sorted' = FALSE
    /\ UNCHANGED <<cmpVars, goVars>>

\* FindMatching: findHost, filterByHost, fuzzySort (in place, on the slice
\* filterByHost returned), return "".
FindMatching(r) ==
    LET host == findHost(r)
        viable == filterByHost(responseHistory, host)
    IN  \E out \in fuzzySort(viable, host, r) :
            /\ op' = "FindMatching"
            /\ req' = r
            /\ filtered' = viable
            /\ viableReqs' = out.reqs
            /\ stderr' = out.stderr
            /\ sorted' = out.sorted
            /\ ret' = ""
            /\ responseHistory' = storeAfterSort(responseHistory, out.reqs)
            /\ UNCHANGED <<appended, cmpVars, goVars>>

Next ==
    \/ \E itm \in HistItems : AddToHistory(itm)
    \/ \E r \in Requests : FindMatching(r)

Spec == Init /\ [][Next]_vars

\* ------------------------------------------------------ the comparer alone

\* Candidates handed to fuzzyComparer.
CmpItems ==
    [Host : {[Value |-> "foo", Ip |-> <<49>>]}, Port : Ports, Protocol : Protocols,
     Method : Methods, Path : Paths, Request : [Value : Bodies]]

\* The compareArgs fuzzySort builds from a request.
CmpArgs ==
    [Request : Bodies, Host : {[Value |-> "foo", Ip |-> <<49>>]}, Port : {""},
     Protocol : {"HTTP/1.1"}, Method : {"GET"}, Path : Paths]

InitCmp ==
    /\ cmpArgs \in CmpArgs
    /\ cmpReqs \in [1..2 -> CmpItems]
    /\ cmpLess = <<>>
    /\ responseHistory = <<>>
    /\ appended = <<>>
    /\ op = "init"
    /\ req = None
    /\ filtered = <<>>
    /\ viableReqs = <<>>
    /\ ret = None
    /\ stderr = 0
    /\ sorted = FALSE
    /\ pc = None
    /\ snap = None
    /\ item = None

\* less := fuzzyComparer(reqs, args), then less(i, j) for every i and j.
Compare ==
    /\ cmpLess = <<>>
    /\ cmpLess' = fuzzyComparer(cmpReqs, cmpArgs)
    /\ UNCHANGED <<cmpArgs, cmpReqs, seqVars, goVars>>

NextCmp == Compare

SpecCmp == InitCmp /\ [][NextCmp]_vars

\* ------------------------------- concurrent callers, no synchronization
\*
\* "responseHistory = append(responseHistory, itm)" is a load of the slice,
\* the append, and a store of the result, with no lock around them; the
\* store of the new element and of the slice header takes time (from
\* StoreBegin to StoreEnd).  FindMatching loads the slice once, as the
\* argument of filterByHost, and works on that value from then on.
\* A load that overlaps a store may see a torn value (LoadTorn: the
\* goroutine faults on it); two stores that overlap may leave a mix of the
\* two items in the slot both write.

Appenders == {"a1", "a2"}
Finder == "f"
Procs == Appenders \cup {Finder}

otherAppender(p) == CHOOSE q \in Appenders : q # p

storing(q) == pc[q] \in {"store", "racing"}

\* append(snapshot, itm) dropping the item.
appendItemMutant(snapshot, itm) == snapshot

\* append(responseHistory, itm), on the slice value loaded before.
appendItem(snapshot, itm) == Append(snapshot, itm)

\* What two overlapping stores of items a and b can leave in one slot:
\* each field from either.
Mixes(a, b) ==
    [Host : [Value : {a.Host.Value, b.Host.Value}, Ip : {a.Host.Ip, b.Host.Ip}],
     Port : {a.Port, b.Port}, Protocol : {a.Protocol, b.Protocol},
     Method : {a.Method, b.Method}, Path : {a.Path, b.Path},
     Request : [Value : {a.Request.Value, b.Request.Value}]]

\* Requests the concurrent FindMatching is given.
RaceRequests == {r \in Requests : ~r.Body.err /\ r.RemoteAddr = <<49, 58, 57>>}

InitRace ==
    /\ responseHistory \in {<<>>} \cup {<<i>> : i \in HistItems}
    /\ appended = responseHistory
    /\ op = "init"
    /\ req \in RaceRequests
    /\ filtered = <<>>
    /\ viableReqs = <<>>
    /\ ret = None
    /\ stderr = 0
    /\ sorted = FALSE
    /\ cmpArgs = None
    /\ cmpReqs = <<>>
    /\ cmpLess = <<>>
    /\ pc = [p \in Procs |-> "load"]
    /\ snap = [p \in Procs |-> <<>>]
    /\ item \in [Appenders -> HistItems]

\* AddToHistory, first part: load responseHistory.
Load(p) ==
    /\ pc[p] = "load"
    /\ snap' = [snap EXCEPT ![p] = responseHistory]
    /\ pc' = [pc EXCEPT ![p] = "append"]
    /\ UNCHANGED <<seqVars, cmpVars, item>>

\* A load of responseHistory while another goroutine is storing it.
LoadTorn(p) ==
    /\ pc[p] = "load"
    /\ \E q \in Appenders \ {p} : storing(q)
    /\ pc' = [pc EXCEPT ![p] = "fault"]
    /\ UNCHANGED <<seqVars, cmpVars, snap, item>>

\* AddToHistory, second part: start storing the new element and header.
StoreBegin(p) ==
    /\ pc[p] = "append"
    /\ pc' = IF storing(otherAppender(p))
             THEN [pc EXCEPT ![p] = "racing", ![otherAppender(p)] = "racing"]
             ELSE [pc EXCEPT ![p] = "store"]
    /\ UNCHANGED <<seqVars, cmpVars, snap, item>>

\* AddToHistory, last part: the store is complete.
StoreEnd(p) ==
    /\ storing(p)
    /\ \E x \in IF pc[p] = "racing"
                THEN Mixes(item[p], item[otherAppender(p)])
                ELSE {item[p]} :
          responseHistory' = appendItem(snap[p], x)
    /\ pc' = [pc EXCEPT ![p] = "done"]
    /\ UNCHANGED <<appended, op, req, filtered, viableReqs, ret, stderr, sorted,
                   cmpVars, snap, item>>

\* FindMatching, up to the call of filterByHost: load responseHistory.
FindLoad ==
    /\ pc[Finder] = "load"
    /\ snap' = [snap EXCEPT ![Finder] = responseHistory]
    /\ pc' = [pc EXCEPT ![Finder] = "filter"]
    /\ UNCHANGED <<seqVars, cmpVars, item>>

\* FindMatching, the rest: filter and sort the loaded value, return "".
FindRest ==
    /\ pc[Finder] = "filter"
    /\ LET host == findHost(req)
           viable == filterByHost(snap[Finder], host)
       IN  \E out \in fuzzySort(viable, host, req) :
               /\ filtered' = viable
               /\ viableReqs' = out.reqs
               /\ stderr' = out.stderr
               /\ sorted' = out.sorted
    /\ ret' = ""
    /\ pc' = [pc EXCEPT ![Finder] = "done"]
    /\ UNCHANGED <<responseHistory, appended, op, req, cmpVars, snap, item>>

NextRace ==
    \/ \E p \in Appenders : Load(p)
    \/ \E p \in Procs : LoadTorn(p)
    \/ \E p \in Appenders : StoreBegin(p)
    \/ \E p \in Appenders : StoreEnd(p)
    \/ FindLoad
    \/ FindRest

SpecRace == InitRace /\ [][NextRace]_vars

\* ------------------------------------------------- claims on the comparer

ra == cmpReqs[1]
rb == cmpReqs[2]
compared == cmpLess # <<>>

pathExact(r, args) == r.Path = args.Path
bodyExact(r, args) == r.Request.Value = args.Request
methodExact(r, args) == r.Method = args.Method
protocolExact(r, args) == r.Protocol = args.Protocol
portExact(r, args) == r.Port = args.Port

\* The distance in length between r's body and the request's.
lenDiff(r, args) ==
    LET la == Len(r.Request.Value)
        lb == Len(args.Request)
    IN  IF la >= lb THEN la - lb ELSE lb - la

\* C2: a candidate whose path is the request's path comes before one whose
\* path is not, whatever their bodies, methods, protocols and ports.
C2_PathDominates ==
    (compared /\ pathExact(ra, cmpArgs) /\ ~pathExact(rb, cmpArgs))
        => (cmpLess[1, 2] /\ ~cmpLess[2, 1])

\* A compared pair where the path decides against method and body.
C2_Witness ==
    /\ compared
    /\ pathExact(ra, cmpArgs) /\ ~pathExact(rb, cmpArgs)
    /\ ~methodExact(ra, cmpArgs) /\ methodExact(rb, cmpArgs)
    /\ ~bodyExact(ra, cmpArgs) /\ bodyExact(rb, cmpArgs)
    /\ cmpLess[1, 2]

\* C3: when the path flags agree and the body flags agree, the candidate
\* whose method is the request's comes before the one whose method is not,
\* for every pair of body lengths.
C3_MethodBeatsCloseness ==
    (/\ compared
     /\ pathExact(ra, cmpArgs) = pathExact(rb, cmpArgs)
     /\ bodyExact(ra, cmpArgs) = bodyExact(rb, cmpArgs)
     /\ methodExact(ra, cmpArgs) /\ ~methodExact(rb, cmpArgs))
        => (cmpLess[1, 2] /\ ~cmpLess[2, 1])

\* A compared pair where the method wins over a strictly closer body.
C3_Witness ==
    /\ compared
    /\ pathExact(ra, cmpArgs) = pathExact(rb, cmpArgs)
    /\ bodyExact(ra, cmpArgs) = bodyExact(rb, cmpArgs)
    /\ methodExact(ra, cmpArgs) /\ ~methodExact(rb, cmpArgs)
    /\ lenDiff(rb, cmpArgs) < lenDiff(ra, cmpArgs)
    /\ cmpLess[1, 2]

\* C4: the comparer is a strict weak ordering: irreflexive, asymmetric,
\* transitive, and with a transitive incomparability relation.
C4_StrictWeakOrder ==
    compared =>
        /\ ~cmpLess[1, 1] /\ ~cmpLess[2, 2]
        /\ ~(cmpLess[1, 2] /\ cmpLess[2, 1])
        /\ \A rc \in CmpItems :
              /\ (cmpLess[1, 2] /\ lessItems(rb, rc, cmpArgs))
                    => lessItems(ra, rc, cmpArgs)
              /\ (/\ ~cmpLess[1, 2] /\ ~cmpLess[2, 1]
                  /\ ~lessItems(rb, rc, cmpArgs) /\ ~lessItems(rc, rb, cmpArgs))
                    => (~lessItems(ra, rc, cmpArgs) /\ ~lessItems(rc, ra, cmpArgs))

\* A compared pair that heads a chain of three, decided by different steps.
C4_Witness ==
    /\ compared
    /\ cmpLess[1, 2]
    /\ pathExact(ra, cmpArgs) = pathExact(rb, cmpArgs)
    /\ \E rc \in CmpItems :
          /\ lessItems(rb, rc, cmpArgs)
          /\ pathExact(rb, cmpArgs) /\ ~pathExact(rc, cmpArgs)

\* <<path, body, method, protocol, port>> flags of a candidate.
key(r, args) ==
    <<pathExact(r, args), bodyExact(r, args), methodExact(r, args),
      protocolExact(r, args), portExact(r, args)>>

\* ka before kb in the lexicographic order where TRUE comes before FALSE.
lexBefore(ka, kb) ==
    \E k \in 1..5 : ka[k] /\ ~kb[k] /\ \A m \in 1..(k - 1) : ka[m] = kb[m]

\* C9: the comparer is the lexicographic order on the five flags, in the
\* order path, body, method, protocol, port; with all five flags equal it
\* is "strictly closer in body length".
C9_Lexicographic ==
    compared =>
        \A i, j \in 1..2 :
            LET ka == key(cmpReqs[i], cmpArgs)
                kb == key(cmpReqs[j], cmpArgs)
            IN  cmpLess[i, j] =
                    IF ka # kb THEN lexBefore(ka, kb)
                    ELSE lenDiff(cmpReqs[i], cmpArgs) < lenDiff(cmpReqs[j], cmpArgs)

\* A compared pair with equal flags that the body length decides, the
\* closer body being the shorter one.
C9_Witness ==
    /\ compared
    /\ key(ra, cmpArgs) = key(rb, cmpArgs)
    /\ Len(rb.Request.Value) < Len(cmpArgs.Request)
    /\ lenDiff(ra, cmpArgs) < lenDiff(rb, cmpArgs)
    /\ cmpLess[1, 2] /\ ~cmpLess[2, 1]

\* -------------------------------------------------- claims on the matcher

found == op = "FindMatching"

\* The compareArgs of the FindMatching call that ran last.
lastArgs ==
    [Request |-> req.Body.data, Host |-> findHost(req), Port |-> req.URL.Port,
     Protocol |-> req.Proto, Method |-> req.Method, Path |-> req.URL.EscapedPath]

hostMatches(e, host) == e.Host.Value = host.Value \/ e.Host.Ip = host.Ip

\* sub is lst restricted to the positions in keep, in the order of lst.
IsRestriction(sub, lst, keep) ==
    /\ Len(sub) = Cardinality(keep)
    /\ \A k \in 1..Len(sub) :
          \E i \in keep :
              /\ Cardinality({m \in keep : m < i}) = k - 1
              /\ sub[k] = lst[i]

\* C1: filterByHost(store, host) is the store restricted to the items whose
\* host value or host ip is the target's: all of them, nothing else, in
\* store order; the empty list when there is none.
C1_FilterByHost ==
    found =>
        LET host == findHost(req)
            keep == {i \in 1..Len(responseHistory) :
                        hostMatches(responseHistory[i], host)}
        IN  /\ IsRestriction(filtered, responseHistory, keep)
            /\ (keep = {}) => (filtered = <<>>)

\* A filter that kept two distinct items of three, one of them by its ip
\* alone and one by its value alone.
C1_Witness ==
    /\ found
    /\ Len(responseHistory) = 3
    /\ Len(filtered) = 2
    /\ filtered[1] # filtered[2]
    /\ \E e \in {filtered[1], filtered[2]} : e.Host.Value # findHost(req).Value
    /\ \E e \in {filtered[1], filtered[2]} : e.Host.Ip # findHost(req).Ip

tied(a, b, args) == ~lessItems(a, b, args) /\ ~lessItems(b, a, args)

\* lst without the items that are neither a nor b.
only(lst, a, b) == SelectSeq(lst, LAMBDA e : e \in {a, b})

\* C5: after fuzzySort, two candidates the comparer ranks as tied stand in
\* the order they had before the sort.
C5_StableSort ==
    (found /\ sorted) =>
        \A i, j \in 1..Len(filtered) :
            tied(filtered[i], filtered[j], lastArgs)
                => only(viableReqs, filtered[i], filtered[j])
                       = only(filtered, filtered[i], filtered[j])

\* What FindMatching returns when no item of the store passes the filter.
noCandidate == ""

\* C6: with candidates, FindMatching's result is not the result it gives
\* when there is no candidate.
C6_ReportsMatch ==
    (found /\ Len(filtered) > 0) => ret # noCandidate

\* C7: when reading the body fails, the candidates stay as filterByHost
\* returned them, sort.Slice does not run, one line is logged and
\* FindMatching returns.
C7_ReadFailure ==
    (found /\ Len(filtered) > 0 /\ req.Body.err) =>
        /\ viableReqs = filtered
        /\ ~sorted
        /\ stderr = 1
        /\ ret = ""

\* A failed read over candidates that are not in ranked order.
C7_Witness ==
    /\ found
    /\ req.Body.err
    /\ Len(filtered) = 3
    /\ lessItems(filtered[2], filtered[1], lastArgs)
    /\ viableReqs = filtered
    /\ stderr = 1

\* C8: the store is the sequence of the items given to AddToHistory, in
\* call order, and HistoryLength is their number; FindMatching changes
\* neither.
C8_AppendOnly ==
    /\ responseHistory = appended
    /\ HistoryLength = Len(appended)

\* A FindMatching whose sort reordered its candidates, over a full store.
C8_Witness ==
    /\ found
    /\ sorted
    /\ viableReqs # filtered
    /\ Len(filtered) = MaxHist
    /\ HistoryLength = MaxHist

\* ------------------------------------------ claims on concurrent callers

appendersDone == \A p \in Appenders : pc[p] = "done"

\* C10: nothing orders two concurrent AddToHistory calls.  When both have
\* returned, the store holds what it held before them and one or two more
\* items, and it holds only one more exactly when both calls loaded the
\* same list: one append is lost.  A concurrent FindMatching works on the
\* store as it was before the appends, after one, or after both.
C10_LostUpdate ==
    /\ appendersDone =>
          /\ HistoryLength \in {Len(appended) + 1, Len(appended) + 2}
          /\ SubSeq(responseHistory, 1, Len(appended)) = appended
          /\ (HistoryLength < Len(appended) + 2) <=> (snap["a1"] = snap["a2"])
    /\ pc[Finder] = "done" =>
          /\ Len(snap[Finder]) \in Len(appended)..(Len(appended) + 2)
          /\ SubSeq(snap[Finder], 1, Len(appended)) = appended
          /\ filtered = filterByHost(snap[Finder], findHost(req))

\* Both calls returned, and the store holds one of the two items only; the
\* FindMatching that ran beside them saw neither.
C10_Witness ==
    /\ appendersDone
    /\ item["a1"] # item["a2"]
    /\ HistoryLength = Len(appended) + 1
    /\ responseHistory[HistoryLength] = item["a2"]
    /\ pc[Finder] = "done"
    /\ snap[Finder] = appended

====
